---------------------------- MODULE Spec2Model ----------------------------
(***************************************************************************)
(* Model of the thought ledger bot (src/main.py).                          *)
(*                                                                         *)
(* The bot runs on one cooperative event loop: a handler runs without      *)
(* interruption from one await to the next.  Every action below is the     *)
(* code of one handler between two awaits; `running` names the handler     *)
(* that holds the loop (0 when the loop is free to start or resume one).   *)
(*                                                                         *)
(* Text is a sequence of one-character strings.  The token "T" stands for  *)
(* the words `sometimes i think [a lot] about` in any casing, "N" for a    *)
(* newline, " " for a blank, "." for a full stop, "a" and "b" for letters. *)
(*                                                                         *)
(* Platform calls (ctx.send, channel.history) may raise; file-system       *)
(* errors of open() and the chart renderer are outside the model.          *)
(***************************************************************************)
EXTENDS Integers, Sequences, FiniteSets, TLC

(***************************************************************************)
(* Bounds of the model.                                                    *)
(***************************************************************************)
MaxMessages == 2

MaxSelects == 1

MaxLate == 1

MaxText == 3

\* The handlers of the messages the platform delivers, in order of arrival.
Tasks == 1..MaxMessages

\* The handlers of the selections users make in the views' menus.
Clicks == (MaxMessages + 1)..(MaxMessages + MaxSelects)

\* The handlers of further messages, which only the specifications without a
\* scan let arrive.
Late == (MaxMessages + MaxSelects + 1)..(MaxMessages + MaxSelects + MaxLate)

AllTasks == Tasks \cup Late

Handlers == AllTasks \cup Clicks

\* A view is created by a message, so there are no more views than messages.
ViewIds == 1..(MaxMessages + MaxLate)

Users == {"u1", "u2"}

(***************************************************************************)
(* Text: str.strip() and pattern.findall().                                *)
(***************************************************************************)
IsSpace(c) == c \in {" ", "N"}

IsWord(c) == c \in {"a", "b", "T"}

RECURSIVE LStrip(_)
LStrip(s) ==
    IF s # <<>> /\ IsSpace(Head(s)) THEN LStrip(Tail(s)) ELSE s

RECURSIVE RStrip(_)
RStrip(s) ==
    IF s # <<>> /\ IsSpace(s[Len(s)]) THEN RStrip(SubSeq(s, 1, Len(s) - 1)) ELSE s

Strip(s) == RStrip(LStrip(s))

\* Last index of the run of whitespace that starts at i (i - 1 if s[i] is none).
RECURSIVE WsEnd(_, _)
WsEnd(s, i) ==
    IF i <= Len(s) /\ IsSpace(s[i]) THEN WsEnd(s, i + 1) ELSE i - 1

\* Where the lazy capture (.+?) that starts at c ends: the first index from c
\* on that is followed by ".", a newline or the end of the text.
RECURSIVE CapEnd(_, _)
CapEnd(s, c) ==
    IF c >= Len(s) \/ s[c + 1] \in {".", "N"} THEN c ELSE CapEnd(s, c + 1)

\* The match of the pattern that starts at index i, as <<first, last>> of the
\* captured group, or <<0, 0>> when the pattern does not match at i.
MatchAt(s, i) ==
    IF ~(/\ s[i] = "T"
         /\ (i = 1 \/ ~IsWord(s[i - 1]))
         /\ i + 1 <= Len(s)
         /\ IsSpace(s[i + 1]))
    THEN <<0, 0>>
    ELSE LET m == WsEnd(s, i + 1)
         IN  IF m < Len(s)
             THEN <<m + 1, CapEnd(s, m + 1)>>
             ELSE \* \s+ gives characters back until "." can match one
                  LET back == {c \in (i + 2)..m : s[c] # "N"}
                  IN  IF back = {}
                      THEN <<0, 0>>
                      ELSE LET c == CHOOSE x \in back : \A y \in back : y <= x
                           IN  <<c, CapEnd(s, c)>>

RECURSIVE FindFrom(_, _)
FindFrom(s, i) ==
    IF i > Len(s)
    THEN <<>>
    ELSE LET r == MatchAt(s, i)
         IN  IF r[1] = 0
             THEN FindFrom(s, i + 1)
             ELSE <<SubSeq(s, r[1], r[2])>> \o FindFrom(s, r[2] + 1)

FindAll(s) == FindFrom(s, 1)

(***************************************************************************)
(* Python dicts as the code uses them.  A ThoughtMap is the list of its    *)
(* <<phrase, count>> items in insertion order; the Ledger maps the author  *)
(* ids it holds to their ThoughtMaps.                                      *)
(***************************************************************************)
Keys(d) == {d[i][1] : i \in 1..Len(d)}

Has(d, key) == key \in Keys(d)

Get(d, key, default) ==
    IF Has(d, key)
    THEN d[CHOOSE i \in 1..Len(d) : d[i][1] = key][2]
    ELSE default

Put(d, key, val) ==
    IF Has(d, key)
    THEN [i \in 1..Len(d) |-> IF d[i][1] = key THEN <<key, val>> ELSE d[i]]
    ELSE Append(d, <<key, val>>)

RECURSIVE Del(_, _)
Del(d, key) ==
    IF d = <<>> THEN <<>>
    ELSE IF Head(d)[1] = key THEN Tail(d)
    ELSE <<Head(d)>> \o Del(Tail(d), key)

EmptyLedger == <<>>

UserMap(data, uid) == IF uid \in DOMAIN data THEN data[uid] ELSE <<>>

SetUser(data, uid, m) ==
    [u \in DOMAIN data \cup {uid} |-> IF u = uid THEN m ELSE data[u]]


\* sorted(items, key=lambda x: -x[1]): a stable sort by descending count.
RECURSIVE InsertDesc(_, _)
InsertDesc(sorted, item) ==
    IF sorted = <<>> THEN <<item>>
    ELSE IF Head(sorted)[2] >= item[2]
         THEN <<Head(sorted)>> \o InsertDesc(Tail(sorted), item)
         ELSE <<item>> \o sorted

RECURSIVE SortDesc(_)
SortDesc(items) ==
    IF items = <<>> THEN <<>>
    ELSE InsertDesc(SortDesc(SubSeq(items, 1, Len(items) - 1)), items[Len(items)])

(***************************************************************************)
(* The inputs of the model: message texts, the historical corpus the       *)
(* rescan replays, and the events the platform delivers.                   *)
(***************************************************************************)
TxtA == <<"T", " ", "a">>

TxtBBlank == <<"T", " ", "b", ".", "T", " ", " ">>

TxtBlank == <<"T", " ", " ">>

TxtPlain == <<"a">>

\* bot.guilds x guild.text_channels with each channel's history, in the
\* order the platform enumerates them.  Live messages of a run are not added.
Corpus ==
    << << [author |-> "u1", text |-> TxtA], [author |-> "u2", text |-> TxtA] >>,
       << [author |-> "u1", text |-> TxtBBlank] >> >>

NoEv == [kind |-> "none", author |-> "", bot |-> FALSE, text |-> <<>>,
         cmd |-> "none", user |-> "", obj |-> 0]

Msg(a, isBot, x, c, u) ==
    [kind |-> "message", author |-> a, bot |-> isBot, text |-> x,
     cmd |-> c, user |-> u, obj |-> 0]

\* The messages the platform may deliver.  A command's text is what follows
\* the command word and the user mention; the framework refuses an add whose
\* thought argument is missing or blank before add_thought runs.
MessageEvents ==
    {Msg("u1", FALSE, TxtA, "none", "u1"),
     Msg("u2", FALSE, TxtA, "none", "u2"),
     Msg("u1", FALSE, TxtBlank, "none", "u1"),
     Msg("u1", TRUE, TxtA, "none", "u1"),
     Msg("u1", FALSE, TxtPlain, "add", "u1"),
     Msg("u1", FALSE, <<>>, "remove", "u1"),
     Msg("u1", FALSE, <<>>, "replace", "u1"),
     Msg("u1", FALSE, <<>>, "rescan", "u1"),
     Msg("u2", FALSE, TxtA, "rescan", "u2")}

\* What a user may type into the modal's required text input.
ModalValues == {<<"a">>, <<"b">>, <<" ">>}

\* The thoughts these inputs can put into a map, which a menu can offer.
Thoughts == {<<"a">>, <<"b">>, <<>>}

NoScan == [user |-> "", total |-> 0, ch |-> 0, mi |-> 0, skipped |-> {}]

VARIABLES
    is_scanning,  \* the global flag of line 27
    file,         \* thoughts.json: [state, doc]
    running,      \* the task that holds the event loop, 0 when none does
    pc,           \* each task's position in its handler
    ev,           \* the event each task handles
    data,         \* the local `data` of on_message and of the scan
    k,            \* on_message's position in `matches`
    scan,         \* the scan's locals: user, total_matched, loop position
    sent,         \* the rescan notices each task has sent to its caller
    views,        \* the ThoughtSelectViews created so far
    modals        \* the ReplaceThoughtModals created so far

vars == <<is_scanning, file, running, pc, ev, data, k, scan, sent, views, modals>>

(***************************************************************************)
(* The Ledger Store.                                                       *)
(***************************************************************************)
\* Lines 31-37: {} when the file is absent or json.load raises
\* JSONDecodeError ("malformed").
load_data == IF file.state = "ok" THEN file.doc ELSE EmptyLedger

\* Lines 33-36: the file's bytes are not UTF-8 ("undecodable"); json.load
\* raises UnicodeDecodeError, which the except clause does not name.
LoadRaises == file.state = "undecodable"

save_data(d) == file' = [state |-> "ok", doc |-> d]

ensure_user_data(d, user_id) ==
    IF user_id \in DOMAIN d THEN d ELSE SetUser(d, user_id, <<>>)

\* data[uid][thought] = data[uid].get(thought, 0) + 1
Increment(d, uid, thought) ==
    SetUser(d, uid, Put(d[uid], thought, Get(d[uid], thought, 0) + 1))

\* A ledger an earlier run of the bot has left in the file.
StoredLedger == SetUser(EmptyLedger, "u1", <<<<TxtPlain, 1>>>>)

Init ==
    /\ is_scanning = FALSE
    /\ file \in {[state |-> "absent", doc |-> EmptyLedger],
                 [state |-> "malformed", doc |-> EmptyLedger],
                 [state |-> "ok", doc |-> StoredLedger]}
    /\ running = 0
    /\ pc = [t \in Handlers |-> "new"]
    /\ ev = [t \in Handlers |-> NoEv]
    /\ data = [t \in Handlers |-> EmptyLedger]
    /\ k = [t \in Handlers |-> 0]
    /\ scan = [t \in Handlers |-> NoScan]
    /\ sent = [t \in Handlers |-> {}]
    /\ views = <<>>
    /\ modals = <<>>

\* The loop is free and t is the next handler of its kind to be created.
CanStart(t) ==
    /\ running = 0
    /\ pc[t] = "new"
    /\ \A s \in Handlers : (s < t /\ (s \in Clicks <=> t \in Clicks)) => pc[s] # "new"

\* The handler returns: its locals are gone.
Ends(t, label) ==
    /\ pc' = [pc EXCEPT ![t] = label]
    /\ ev' = [ev EXCEPT ![t] = NoEv]
    /\ data' = [data EXCEPT ![t] = EmptyLedger]
    /\ k' = [k EXCEPT ![t] = 0]
    /\ scan' = [scan EXCEPT ![t] = NoScan]
    /\ sent' = [sent EXCEPT ![t] = {}]
    /\ running' = 0

(***************************************************************************)
(* on_message                                                              *)
(***************************************************************************)
\* A guard that forgets the scan flag.
IgnoresBotsOnly(m) == m.bot

\* Line 303: messages of bots, and all messages while a scan is active.
Ignores(m) == is_scanning \/ m.bot

\* Lines 301-309: the guard, the search, and the load before the loop.
OnMessage(t, m) ==
    /\ CanStart(t)
    /\ IF Ignores(m)
       THEN /\ pc' = [pc EXCEPT ![t] = IF is_scanning THEN "ignored" ELSE "done"]
            /\ UNCHANGED <<running, ev, data, k>>
       ELSE /\ ev' = [ev EXCEPT ![t] = m]
            /\ running' = t
            /\ IF FindAll(m.text) # <<>>
               THEN /\ ~LoadRaises
                    /\ data' = [data EXCEPT
                                  ![t] = ensure_user_data(load_data, m.author)]
                    /\ k' = [k EXCEPT ![t] = 1]
                    /\ pc' = [pc EXCEPT ![t] = "loop"]
               ELSE /\ pc' = [pc EXCEPT ![t] = "cmd"]
                    /\ UNCHANGED <<data, k>>
    /\ UNCHANGED <<is_scanning, file, scan, sent, views, modals>>

\* Lines 310-316: one turn of the loop over the matches, or the save after it.
MsgLoop(t) ==
    /\ running = t
    /\ pc[t] = "loop"
    /\ LET matches == FindAll(ev[t].text)
       IN  IF k[t] > Len(matches)
           THEN /\ save_data(data[t])
                /\ pc' = [pc EXCEPT ![t] = "cmd"]
                /\ data' = [data EXCEPT ![t] = EmptyLedger]
                /\ k' = [k EXCEPT ![t] = 0]
                /\ UNCHANGED running
           ELSE LET thought == Strip(matches[k[t]])
                IN  IF thought # <<>>
                    THEN /\ data' = [data EXCEPT
                                ![t] = Increment(@, ev[t].author, thought)]
                         /\ pc' = [pc EXCEPT ![t] = "send315"]
                         /\ running' = 0
                         /\ UNCHANGED <<file, k>>
                    ELSE /\ k' = [k EXCEPT ![t] = @ + 1]
                         /\ UNCHANGED <<file, data, pc, running>>
    /\ UNCHANGED <<is_scanning, ev, scan, sent, views, modals>>

\* Line 315: the send returns and the loop goes on.
MsgSent(t) ==
    /\ running = 0
    /\ pc[t] = "send315"
    /\ running' = t
    /\ pc' = [pc EXCEPT ![t] = "loop"]
    /\ k' = [k EXCEPT ![t] = @ + 1]
    /\ UNCHANGED <<is_scanning, file, ev, data, scan, sent, views, modals>>

\* Line 315: the send raises; the handler ends before its save.
MsgSendFails(t) ==
    /\ running = 0
    /\ pc[t] = "send315"
    /\ Ends(t, "failed")
    /\ UNCHANGED <<is_scanning, file, views, modals>>

\* Line 308: load_data raises; the handler ends before the loop and before
\* the commands.
OnMessageLoadFails(t, m) ==
    /\ CanStart(t)
    /\ ~Ignores(m)
    /\ FindAll(m.text) # <<>>
    /\ LoadRaises
    /\ pc' = [pc EXCEPT ![t] = "failed"]
    /\ UNCHANGED <<is_scanning, file, running, ev, data, k, scan, sent, views, modals>>

(***************************************************************************)
(* Line 319, bot.process_commands(message): the commands.                  *)
(***************************************************************************)
\* The message is no command.
CmdNone(t) ==
    /\ running = t
    /\ pc[t] = "cmd"
    /\ ev[t].cmd = "none"
    /\ Ends(t, "done")
    /\ UNCHANGED <<is_scanning, file, views, modals>>

\* Lines 406-411.  The framework strips the `thought` argument and refuses the
\* command when nothing is left of it, so the body runs on a non-blank text.
add_thought(t) ==
    /\ running = t
    /\ pc[t] = "cmd"
    /\ ev[t].cmd = "add"
    /\ ~LoadRaises
    /\ IF Strip(ev[t].text) = <<>>
       THEN UNCHANGED file
       ELSE LET d == ensure_user_data(load_data, ev[t].user)
                thought == Strip(ev[t].text)
            IN  save_data(Increment(d, ev[t].user, thought))
    /\ Ends(t, "done")
    /\ UNCHANGED <<is_scanning, views, modals>>

\* Lines 407, 395 and 401 (through line 185): load_data raises in add_thought
\* or in the view's constructor; the command ends with nothing saved or shown.
CmdLoadFails(t) ==
    /\ running = t
    /\ pc[t] = "cmd"
    /\ ev[t].cmd \in {"add", "remove", "replace"}
    /\ LoadRaises
    /\ Ends(t, "failed")
    /\ UNCHANGED <<is_scanning, file, views, modals>>

per_page == 25

\* Lines 180-208, ThoughtSelectView.__init__: the snapshot the view keeps.
NewView(ctx_author, user, action) ==
    LET d == load_data
        user_data == UserMap(d, user)
    IN  [owner |-> ctx_author, user |-> user, action |-> action, data |-> d,
         page |-> 0,
         sorted_thoughts |-> IF user_data = <<>> THEN <<>> ELSE SortDesc(user_data),
         live |-> user_data # <<>>]

\* Lines 394-396 and 400-402: remove_thought and replace_thought.
OpenView(t) ==
    /\ running = t
    /\ pc[t] = "cmd"
    /\ ev[t].cmd \in {"remove", "replace"}
    /\ ~LoadRaises
    /\ views' = Append(views, NewView(ev[t].author, ev[t].user, ev[t].cmd))
    /\ Ends(t, "done")
    /\ UNCHANGED <<is_scanning, file, modals>>

\* Lines 379-388: rescan up to its first send.
rescan(t) ==
    /\ running = t
    /\ pc[t] = "cmd"
    /\ ev[t].cmd = "rescan"
    /\ \/ /\ is_scanning
          /\ Ends(t, "refused382")
       \/ /\ ~is_scanning
          /\ sent' = [sent EXCEPT ![t] = @ \cup {"rebuilding388"}]
          /\ pc' = [pc EXCEPT ![t] = "rescan388"]
          /\ running' = 0
          /\ UNCHANGED <<ev, data, k, scan>>
    /\ UNCHANGED <<is_scanning, file, views, modals>>

(***************************************************************************)
(* scan_existing_messages_for_user                                         *)
(***************************************************************************)
\* An entry that does not look at the flag.
ScanEnterUnguarded(t) ==
    /\ is_scanning' = TRUE
    /\ sent' = [sent EXCEPT ![t] = @ \cup {"starting59"}]
    /\ pc' = [pc EXCEPT ![t] = "scan59"]

\* Lines 53-59: the single-flight guard, up to the send of line 55 or 59.
ScanEnter(t) ==
    \/ /\ is_scanning
       /\ sent' = [sent EXCEPT ![t] = @ \cup {"busy55"}]
       /\ pc' = [pc EXCEPT ![t] = "scan55"]
       /\ UNCHANGED is_scanning
    \/ /\ ~is_scanning
       /\ is_scanning' = TRUE
       /\ sent' = [sent EXCEPT ![t] = @ \cup {"starting59"}]
       /\ pc' = [pc EXCEPT ![t] = "scan59"]

\* Line 389: the send of line 388 has returned and rescan calls the scan.
RescanCallsScan(t) ==
    /\ running = 0
    /\ pc[t] = "rescan388"
    /\ ScanEnter(t)
    /\ UNCHANGED <<file, running, ev, data, k, scan, views, modals>>

\* Lines 56 and 390: the scan returned at once; rescan sends its last notice.
ScanRefused(t) ==
    /\ running = 0
    /\ pc[t] = "scan55"
    /\ Ends(t, "done")
    /\ UNCHANGED <<is_scanning, file, views, modals>>

NChannels == Len(Corpus)

\* Lines 71-78: one message of the history.
ScanMessage(d, total, user, msg) ==
    IF msg.author # user
    THEN <<d, total>>
    ELSE LET matches == FindAll(msg.text)
             Step[i \in 0..Len(matches)] ==
                 IF i = 0 THEN <<d, total>>
                 ELSE LET thought == Strip(matches[i])
                      IN  IF thought # <<>>
                          THEN <<Increment(Step[i - 1][1], user, thought),
                                 Step[i - 1][2] + 1>>
                          ELSE Step[i - 1]
         IN  Step[Len(matches)]

\* A scan that merges into the user's map instead of replacing it.
ScanKeeps(d, uid) == ensure_user_data(d, uid)

\* Lines 62-64: the user's map is emptied before the scan counts.
ScanReset(d, uid) == SetUser(ensure_user_data(d, uid), uid, <<>>)

\* Lines 61-70: the send of line 59 has returned; the first history is asked for.
ScanStart(t) ==
    /\ running = 0
    /\ pc[t] = "scan59"
    /\ ~LoadRaises
    /\ data' = [data EXCEPT ![t] = ScanReset(load_data, ev[t].user)]
    /\ scan' = [scan EXCEPT ![t] = [user |-> ev[t].user, total |-> 0, ch |-> 1,
                                    mi |-> 0, skipped |-> {}]]
    /\ pc' = [pc EXCEPT ![t] = "history"]
    /\ UNCHANGED <<is_scanning, file, running, ev, k, sent, views, modals>>

\* Line 59: the send raises; nothing resets the flag.
ScanStartFails(t) ==
    /\ running = 0
    /\ pc[t] = "scan59"
    /\ Ends(t, "failed")
    /\ UNCHANGED <<is_scanning, file, views, modals>>

\* Lines 70-78: the history yields its next message.
ScanRead(t) ==
    /\ running = 0
    /\ pc[t] = "history"
    /\ scan[t].mi < Len(Corpus[scan[t].ch])
    /\ LET r == ScanMessage(data[t], scan[t].total, scan[t].user,
                            Corpus[scan[t].ch][scan[t].mi + 1])
       IN  /\ data' = [data EXCEPT ![t] = r[1]]
           /\ scan' = [scan EXCEPT ![t].total = r[2], ![t].mi = @ + 1]
    /\ UNCHANGED <<is_scanning, file, running, pc, ev, k, sent, views, modals>>

\* Line 80: the history is exhausted and the scan sleeps.
ScanChannelDone(t) ==
    /\ running = 0
    /\ pc[t] = "history"
    /\ scan[t].mi = Len(Corpus[scan[t].ch])
    /\ pc' = [pc EXCEPT ![t] = "sleep"]
    /\ UNCHANGED <<is_scanning, file, running, ev, data, k, scan, sent, views, modals>>

\* Lines 67-68: the loop goes to the next channel, or leaves for line 84.
NextChannel(t, skippedNow) ==
    /\ scan' = [scan EXCEPT ![t].ch = @ + 1, ![t].mi = 0,
                            ![t].skipped = @ \cup skippedNow]
    /\ IF scan[t].ch < NChannels
       THEN pc' = [pc EXCEPT ![t] = "history"] /\ running' = 0
       ELSE pc' = [pc EXCEPT ![t] = "finish"] /\ running' = t

\* A failure that ends the loop over the channels instead of one turn of it.
ScanReadAborts(t) ==
    /\ running = 0
    /\ pc[t] = "history"
    /\ scan' = [scan EXCEPT ![t].skipped = @ \cup {scan[t].ch}]
    /\ pc' = [pc EXCEPT ![t] = "finish"]
    /\ running' = t
    /\ UNCHANGED <<is_scanning, file, ev, data, k, sent, views, modals>>

\* Lines 81-82: reading the channel raises; it is logged and skipped.
ScanReadFails(t) ==
    /\ running = 0
    /\ pc[t] = "history"
    /\ NextChannel(t, {scan[t].ch})
    /\ UNCHANGED <<is_scanning, file, ev, data, k, sent, views, modals>>

\* Line 80: the sleep is over.
ScanSlept(t) ==
    /\ running = 0
    /\ pc[t] = "sleep"
    /\ NextChannel(t, {})
    /\ UNCHANGED <<is_scanning, file, ev, data, k, sent, views, modals>>

\* Lines 84-86: save, reset the flag, send the report.
ScanFinish(t) ==
    /\ running = t
    /\ pc[t] = "finish"
    /\ save_data(data[t])
    /\ is_scanning' = FALSE
    /\ sent' = [sent EXCEPT ![t] = @ \cup {"report86"}]
    /\ pc' = [pc EXCEPT ![t] = "scan86"]
    /\ running' = 0
    /\ UNCHANGED <<ev, data, k, scan, views, modals>>

\* Line 390: the report is sent and rescan sends its last notice.
ScanReported(t) ==
    /\ running = 0
    /\ pc[t] = "scan86"
    /\ Ends(t, "done")
    /\ UNCHANGED <<is_scanning, file, views, modals>>

(***************************************************************************)
(* ThoughtSelectView and ReplaceThoughtModal                               *)
(***************************************************************************)
Min(a, b) == IF a <= b THEN a ELSE b

\* Lines 211-217: the thoughts the select menu offers on the view's page.
PageOptions(v) ==
    LET start == v.page * per_page
        end == Min(start + per_page, Len(v.sorted_thoughts))
    IN  {v.sorted_thoughts[i][1] : i \in (start + 1)..end}

\* A removal that deletes the key only below zero.
RemoveOneKeepsZero(user_data, thought) ==
    IF ~Has(user_data, thought)
    THEN user_data
    ELSE IF Get(user_data, thought, 0) - 1 < 0
         THEN Del(user_data, thought)
         ELSE Put(user_data, thought, Get(user_data, thought, 0) - 1)

\* Lines 230-233: one occurrence less, and no key left at zero.
RemoveOne(user_data, thought) ==
    IF ~Has(user_data, thought)
    THEN user_data
    ELSE IF Get(user_data, thought, 0) - 1 <= 0
         THEN Del(user_data, thought)
         ELSE Put(user_data, thought, Get(user_data, thought, 0) - 1)

Sel(a, v, x) ==
    [kind |-> "select", author |-> a, bot |-> FALSE, text |-> x,
     cmd |-> "none", user |-> "", obj |-> v]

\* Lines 221-239, select_callback up to its first await.  The view's select
\* menu exists when the snapshot held thoughts, and lives until the timeout.
select_callback(t, v, actor, selected_thought) ==
    /\ CanStart(t)
    /\ v \in 1..Len(views)
    /\ views[v].live
    /\ selected_thought \in PageOptions(views[v])
    /\ LET view == views[v]
           user_data == UserMap(view.data, view.user)
       IN  IF actor # view.owner
           THEN /\ pc' = [pc EXCEPT ![t] = "rejected"]
                /\ UNCHANGED <<file, ev, views, modals>>
           ELSE IF view.action = "remove"
           THEN IF Has(user_data, selected_thought)
                THEN \* the snapshot is changed in place, then line 234 awaits
                     /\ views' = [views EXCEPT ![v].data =
                           SetUser(@, view.user, RemoveOne(user_data, selected_thought))]
                     /\ pc' = [pc EXCEPT ![t] = "select234"]
                     /\ ev' = [ev EXCEPT ![t] = Sel(actor, v, selected_thought)]
                     /\ UNCHANGED <<file, modals>>
                ELSE \* lines 242-243 at once
                     /\ save_data(SetUser(view.data, view.user, user_data))
                     /\ pc' = [pc EXCEPT ![t] = "done"]
                     /\ UNCHANGED <<ev, views, modals>>
           ELSE \* lines 238-240: the modal is shown and nothing is saved
                /\ modals' = Append(modals, [user |-> view.user,
                                             old_thought |-> selected_thought,
                                             open |-> TRUE])
                /\ pc' = [pc EXCEPT ![t] = "done"]
                /\ UNCHANGED <<file, ev, views>>
    /\ UNCHANGED <<is_scanning, running, data, k, scan, sent>>

\* Lines 242-243: the send of line 234 has returned; the snapshot is saved.
SelectSave(t) ==
    /\ running = 0
    /\ pc[t] = "select234"
    /\ save_data(views[ev[t].obj].data)
    /\ Ends(t, "done")
    /\ UNCHANGED <<is_scanning, views, modals>>

\* Line 234: the send raises; the changed snapshot is not saved.
SelectSendFails(t) ==
    /\ running = 0
    /\ pc[t] = "select234"
    /\ Ends(t, "failed")
    /\ UNCHANGED <<is_scanning, file, views, modals>>

\* Line 181: the view times out and takes no more interactions.
ViewTimeout(v) ==
    /\ running = 0
    /\ v \in 1..Len(views)
    /\ views[v].live
    /\ views' = [views EXCEPT ![v].live = FALSE]
    /\ UNCHANGED <<is_scanning, file, running, pc, ev, data, k, scan, sent, modals>>

\* Lines 274-278: the old thought's count moves onto the new thought.
RenameAndMerge(user_data, old_thought, new_thought_str) ==
    IF Has(user_data, old_thought)
    THEN LET count == Get(user_data, old_thought, 0)
             rest == Del(user_data, old_thought)
         IN  Put(rest, new_thought_str, Get(rest, new_thought_str, 0) + count)
    ELSE user_data

\* Lines 270-281, ReplaceThoughtModal.on_submit, up to its save; a modal is
\* submitted once.
on_submit(mo, value) ==
    /\ running = 0
    /\ mo \in 1..Len(modals)
    /\ modals[mo].open
    /\ ~LoadRaises
    /\ LET d == load_data
           user_data == UserMap(d, modals[mo].user)
           merged == RenameAndMerge(user_data, modals[mo].old_thought, Strip(value))
       IN  save_data(SetUser(d, modals[mo].user, merged))
    /\ modals' = [modals EXCEPT ![mo].open = FALSE]
    /\ UNCHANGED <<is_scanning, running, pc, ev, data, k, scan, sent, views>>

\* Line 218: the previous button is disabled on the first page.
PrevDisabled(v) == v.page = 0

\* A next button that is never disabled.
NextNeverDisabled(v) == FALSE

\* Lines 211-212 and 219: the next button is disabled when the page's slice
\* reaches the end of the sorted thoughts.
NextDisabled(v) == v.page * per_page + per_page >= Len(v.sorted_thoughts)

\* Lines 246-249, next_page.  The platform delivers the click of a button
\* that is not disabled; the callback does not look at who clicked.
next_page(v, actor) ==
    /\ running = 0
    /\ v \in 1..Len(views)
    /\ views[v].live
    /\ ~NextDisabled(views[v])
    /\ views' = [views EXCEPT ![v].page = @ + 1]
    /\ UNCHANGED <<is_scanning, file, running, pc, ev, data, k, scan, sent, modals>>

\* Lines 251-254, prev_page, under the same conditions.
prev_page(v, actor) ==
    /\ running = 0
    /\ v \in 1..Len(views)
    /\ views[v].live
    /\ ~PrevDisabled(views[v])
    /\ views' = [views EXCEPT ![v].page = @ - 1]
    /\ UNCHANGED <<is_scanning, file, running, pc, ev, data, k, scan, sent, modals>>

(***************************************************************************)
(* The bot: every handler step the event loop may run next.                *)
(***************************************************************************)
Next ==
    \/ \E t \in Tasks, m \in MessageEvents : OnMessage(t, m)
    \/ \E t \in Tasks : MsgLoop(t)
    \/ \E t \in Tasks : MsgSent(t)
    \/ \E t \in Tasks : MsgSendFails(t)
    \/ \E t \in Tasks : CmdNone(t)
    \/ \E t \in Tasks : add_thought(t)
    \/ \E t \in Tasks : OpenView(t)
    \/ \E t \in Tasks : rescan(t)
    \/ \E t \in Tasks : RescanCallsScan(t)
    \/ \E t \in Tasks : ScanRefused(t)
    \/ \E t \in Tasks : ScanStart(t)
    \/ \E t \in Tasks : ScanStartFails(t)
    \/ \E t \in Tasks : ScanRead(t)
    \/ \E t \in Tasks : ScanChannelDone(t)
    \/ \E t \in Tasks : ScanReadFails(t)
    \/ \E t \in Tasks : ScanSlept(t)
    \/ \E t \in Tasks : ScanFinish(t)
    \/ \E t \in Tasks : ScanReported(t)
    \/ \E t \in Clicks, v \in Tasks, a \in Users, x \in Thoughts :
          select_callback(t, v, a, x)
    \/ \E t \in Clicks : SelectSave(t)
    \/ \E t \in Clicks : SelectSendFails(t)
    \/ \E v \in Tasks : ViewTimeout(v)
    \/ \E mo \in 1..MaxSelects, x \in ModalValues : on_submit(mo, x)

Spec == Init /\ [][Next]_vars

(***************************************************************************)
(* Recording only: live messages and add commands, with no scan, no remove  *)
(* and no rename, and sends that do not fail.                               *)
(***************************************************************************)
RecordEvents == {m \in MessageEvents : m.cmd \in {"none", "add"}}

NextRecord ==
    \/ \E t \in Tasks, m \in RecordEvents : OnMessage(t, m)
    \/ \E t \in Tasks : MsgLoop(t)
    \/ \E t \in Tasks : MsgSent(t)
    \/ \E t \in Tasks : CmdNone(t)
    \/ \E t \in Tasks : add_thought(t)

SpecRecord == Init /\ [][NextRecord]_vars

(***************************************************************************)
(* One operation after another: an event is handled only once no handler   *)
(* is suspended; recording and removing only, and sends that do not fail.  *)
(***************************************************************************)
Quiet == running = 0 /\ \A h \in Handlers : pc[h] \notin {"send315", "select234"}

SeqEvents == {m \in MessageEvents : m.cmd \in {"none", "add", "remove"}}

SeqOnMessage(t, m) == Quiet /\ OnMessage(t, m)

SeqSelect(t, v, x) ==
    /\ Quiet
    /\ v \in 1..Len(views)
    /\ views[v].action = "remove"
    /\ select_callback(t, v, views[v].owner, x)

NextSeq ==
    \/ \E t \in Tasks, m \in SeqEvents : SeqOnMessage(t, m)
    \/ \E t \in Tasks : MsgLoop(t)
    \/ \E t \in Tasks : MsgSent(t)
    \/ \E t \in Tasks : CmdNone(t)
    \/ \E t \in Tasks : add_thought(t)
    \/ \E t \in Tasks : OpenView(t)
    \/ \E t \in Clicks, v \in Tasks, x \in Thoughts : SeqSelect(t, v, x)
    \/ \E t \in Clicks : SelectSave(t)

SpecSeq == Init /\ [][NextSeq]_vars

(***************************************************************************)
(* Recording and renaming with no scan and sends that do not fail; one     *)
(* more message may arrive than under Spec.                                *)
(***************************************************************************)
RenameEvents ==
    {m \in MessageEvents : m.cmd \in {"add", "replace"} \/ (m.cmd = "none" /\ ~m.bot)}

NextRename ==
    \/ \E t \in AllTasks, m \in RenameEvents : OnMessage(t, m)
    \/ \E t \in AllTasks : MsgLoop(t)
    \/ \E t \in AllTasks : MsgSent(t)
    \/ \E t \in AllTasks : CmdNone(t)
    \/ \E t \in AllTasks : add_thought(t)
    \/ \E t \in AllTasks : OpenView(t)
    \/ \E t \in Clicks, v \in ViewIds, a \in Users, x \in Thoughts :
          select_callback(t, v, a, x)
    \/ \E mo \in 1..MaxSelects, x \in ModalValues : on_submit(mo, x)

SpecRename == Init /\ [][NextRename]_vars

(***************************************************************************)
(* The first operations on a file that holds no ledger: it is absent, is   *)
(* not JSON, or is not UTF-8.  No scan, and sends that do not fail.        *)
(***************************************************************************)
InitLoad ==
    /\ is_scanning = FALSE
    /\ file \in {[state |-> "absent", doc |-> EmptyLedger],
                 [state |-> "malformed", doc |-> EmptyLedger],
                 [state |-> "undecodable", doc |-> EmptyLedger]}
    /\ running = 0
    /\ pc = [t \in Handlers |-> "new"]
    /\ ev = [t \in Handlers |-> NoEv]
    /\ data = [t \in Handlers |-> EmptyLedger]
    /\ k = [t \in Handlers |-> 0]
    /\ scan = [t \in Handlers |-> NoScan]
    /\ sent = [t \in Handlers |-> {}]
    /\ views = <<>>
    /\ modals = <<>>

LoadEvents == {m \in MessageEvents : m.cmd # "rescan"}

NextLoad ==
    \/ \E t \in Tasks, m \in LoadEvents : OnMessage(t, m)
    \/ \E t \in Tasks, m \in LoadEvents : OnMessageLoadFails(t, m)
    \/ \E t \in Tasks : MsgLoop(t)
    \/ \E t \in Tasks : MsgSent(t)
    \/ \E t \in Tasks : CmdNone(t)
    \/ \E t \in Tasks : add_thought(t)
    \/ \E t \in Tasks : OpenView(t)
    \/ \E t \in Tasks : CmdLoadFails(t)

SpecLoad == InitLoad /\ [][NextLoad]_vars

(***************************************************************************)
(* Live messages of every short text, handled one after another with sends *)
(* that do not fail.                                                       *)
(***************************************************************************)
Alphabet == {"T", " ", "N", ".", "a"}

Texts == UNION {[1..n -> Alphabet] : n \in 0..MaxText}

ExtractEvents == {Msg("u1", FALSE, x, "none", "u1") : x \in Texts}

NextExtract ==
    \/ \E t \in Tasks, m \in ExtractEvents : SeqOnMessage(t, m)
    \/ \E t \in Tasks : MsgLoop(t)
    \/ \E t \in Tasks : MsgSent(t)
    \/ \E t \in Tasks : CmdNone(t)

SpecExtract == Init /\ [][NextExtract]_vars

(***************************************************************************)
(* The menus of an author with many thoughts: the file holds a ledger of   *)
(* n thoughts, and views are opened, paged through and selected from.      *)
(***************************************************************************)
\* The i-th thought of such a ledger: i letters.
Phrase(i) == [j \in 1..i |-> "a"]

PagedLedger(n) ==
    SetUser(EmptyLedger, "u1", [i \in 1..n |-> <<Phrase(i), 1 + (i % 3)>>])

PageSizes == {1, 25, 26, 40, 51}

InitPages ==
    /\ is_scanning = FALSE
    /\ file \in {[state |-> "ok", doc |-> PagedLedger(n)] : n \in PageSizes}
    /\ running = 0
    /\ pc = [t \in Handlers |-> "new"]
    /\ ev = [t \in Handlers |-> NoEv]
    /\ data = [t \in Handlers |-> EmptyLedger]
    /\ k = [t \in Handlers |-> 0]
    /\ scan = [t \in Handlers |-> NoScan]
    /\ sent = [t \in Handlers |-> {}]
    /\ views = <<>>
    /\ modals = <<>>

ViewEvents == {m \in MessageEvents : m.cmd \in {"remove", "replace"}}

NextPages ==
    \/ \E t \in Tasks, m \in ViewEvents : OnMessage(t, m)
    \/ \E t \in Tasks : OpenView(t)
    \/ \E v \in ViewIds, a \in Users : next_page(v, a)
    \/ \E v \in ViewIds, a \in Users : prev_page(v, a)
    \/ \E t \in Clicks, v \in ViewIds, a \in Users, x \in Thoughts :
          select_callback(t, v, a, x)
    \/ \E t \in Clicks : SelectSave(t)

SpecPages == InitPages /\ [][NextPages]_vars

(***************************************************************************)
(* Properties.                                                             *)
(***************************************************************************)
\* Task t stands between line 58, which sets the flag, and line 85, which
\* resets it.
InScan(t) == pc[t] \in {"scan59", "history", "sleep", "finish"}

Scanning == {t \in Tasks : InScan(t)}

\* A start attempt that finds the flag set: line 381 or line 54.
RefusedStep(t) ==
    \/ pc[t] = "cmd" /\ pc'[t] = "refused382"
    \/ pc[t] = "rescan388" /\ pc'[t] = "scan55"

\* C1: at most one rescan is between setting and resetting the flag, and a
\* start attempt that finds the flag set changes neither the flag nor the
\* in-flight scan's accumulated counts nor the persisted Ledger.
C1_SingleFlight ==
    /\ [](Cardinality(Scanning) <= 1 /\ (Scanning # {} => is_scanning))
    /\ [][\A t \in Tasks : RefusedStep(t) =>
            /\ is_scanning' = is_scanning
            /\ file' = file
            /\ \A s \in Scanning : data'[s] = data[s] /\ scan'[s] = scan[s]
                                   /\ pc'[s] = pc[s]]_vars

C1_Witness ==
    \E t, s \in Tasks : pc[t] = "scan55" /\ InScan(s) /\ scan[s].total > 0

\* C2: every scan that enters Scanning returns the coordinator to Idle, also
\* when a step after the flag was set fails: once no scan is between line 58
\* and line 85 any more, the flag is reset.
C2_FlagReturnsToIdle == Scanning = {} => ~is_scanning

\* The items of a ThoughtMap, without their order.
Items(d) == {<<d[i][1], d[i][2]>> : i \in 1..Len(d)}

AllChannels == 1..NChannels

\* The non-blank captures of the user's messages in the given channels, each
\* with the place it occurs at.
Captures(user, channels) ==
    {<<c, i, j>> \in UNION {{<<c, i, j>> : j \in 1..Len(FindAll(Corpus[c][i].text))} :
                     <<c, i>> \in UNION {{<<c, i>> : i \in 1..Len(Corpus[c])} : c \in channels}} :
        /\ Corpus[c][i].author = user
        /\ Strip(FindAll(Corpus[c][i].text)[j]) # <<>>}

PhraseAt(x) == Strip(FindAll(Corpus[x[1]][x[2]].text)[x[3]])

Occurrences(user, phrase, channels) ==
    Cardinality({x \in Captures(user, channels) : PhraseAt(x) = phrase})

CorpusPhrases(user, channels) == {PhraseAt(x) : x \in Captures(user, channels)}

\* The step of lines 84-86.
FinishStep(t) == pc[t] = "finish" /\ pc'[t] = "scan86"

\* C3: a partition whose read fails is skipped and the scan goes on with the
\* next partition in order, never back; every occurrence in a partition that
\* did not fail is counted, and the scan saves, resets the flag and reports.
C3_SkipsFailedPartition ==
    /\ [][\A t \in Tasks :
            (pc[t] = "history" /\ scan'[t].skipped # scan[t].skipped) =>
                /\ scan'[t].skipped = scan[t].skipped \cup {scan[t].ch}
                /\ scan'[t].ch = scan[t].ch + 1
                /\ pc'[t] = IF scan[t].ch < NChannels THEN "history" ELSE "finish"
                /\ data'[t] = data[t]]_vars
    /\ [][\A t \in Tasks : (InScan(t) /\ InScan(t)') => scan'[t].ch >= scan[t].ch]_vars
    /\ [][\A t \in Tasks : FinishStep(t) =>
            LET u == scan[t].user
                read == AllChannels \ scan[t].skipped
            IN  /\ \A p \in CorpusPhrases(u, read) :
                      Get(data[t][u], p, 0) >= Occurrences(u, p, read)
                /\ scan[t].total >= Cardinality(Captures(u, read))
                /\ file'.state = "ok" /\ file'.doc = data[t]
                /\ ~is_scanning'
                /\ "report86" \in sent'[t]]_vars

C3_Witness ==
    \E t \in Tasks :
        /\ pc[t] = "scan86"
        /\ scan[t].user = "u1"
        /\ scan[t].skipped = {1}
        /\ Get(UserMap(file.doc, "u1"), <<"b">>, 0) = 1
        /\ ~is_scanning

\* C4: a scan that skipped no partition leaves the user's persisted map with
\* exactly the corpus' phrases and their numbers of occurrences, whatever the
\* map held before.
C4_RebuildReplaces ==
    [][\A t \in Tasks : (FinishStep(t) /\ scan[t].skipped = {}) =>
          LET u == scan[t].user
          IN  Items(UserMap(file'.doc, u)) =
                  {<<p, Occurrences(u, p, AllChannels)>> :
                       p \in CorpusPhrases(u, AllChannels)}]_vars

C4_Witness ==
    \E t \in Tasks :
        /\ pc[t] = "scan86"
        /\ scan[t].user = "u1"
        /\ scan[t].skipped = {}
        /\ Items(UserMap(file.doc, "u1")) = {<<<<"a">>, 1>>, <<<<"b">>, 1>>}
        /\ \E v \in 1..Len(views) :
               Items(UserMap(views[v].data, "u1")) # Items(UserMap(file.doc, "u1"))

\* C5: while the flag is set only the scan saves the Ledger.
C5_ScanOwnsLedger ==
    [][(is_scanning /\ file' # file) => \E t \in Tasks : FinishStep(t)]_vars

\* C6: a message delivered while the flag is set is dropped: its handler
\* neither reaches the loop nor the commands, leaves the Ledger alone, and
\* never runs again.
C6_DroppedWhileScanning ==
    /\ [][\A t \in Tasks :
            (is_scanning /\ pc[t] = "new" /\ pc'[t] \in {"ignored", "loop", "cmd"}) =>
                pc'[t] = "ignored" /\ file' = file /\ data' = data]_vars
    /\ [][\A t \in Tasks : pc[t] = "ignored" => pc'[t] = "ignored"]_vars

C6_Witness ==
    \E t, s \in Tasks : pc[t] = "ignored" /\ pc[s] = "scan86" /\ scan[s].skipped = {}

\* The persisted count of a phrase for an author, 0 when there is none.
CountIn(f, uid, phrase) ==
    Get(UserMap(IF f.state = "ok" THEN f.doc ELSE EmptyLedger, uid), phrase, 0)

\* How often the message's non-blank captures are the phrase.
Recorded(text, phrase) ==
    Cardinality({j \in 1..Len(FindAll(text)) : Strip(FindAll(text)[j]) = phrase})

\* C7: with recording only, every live message's save and every add command
\* raises the persisted count of each phrase it records by the number of times
\* it records it, so that N completed records of a phrase leave its count N
\* above where it began, however the handlers interleave.
C7_EveryRecordCounts ==
    [][\A t \in Tasks :
          /\ (pc[t] = "loop" /\ pc'[t] = "cmd") =>
                \A j \in 1..Len(FindAll(ev[t].text)) :
                    LET p == Strip(FindAll(ev[t].text)[j])
                    IN  p # <<>> =>
                          CountIn(file', ev[t].author, p) =
                              CountIn(file, ev[t].author, p) + Recorded(ev[t].text, p)
          /\ (pc[t] = "cmd" /\ ev[t].cmd = "add" /\ pc'[t] = "done") =>
                CountIn(file', ev[t].user, Strip(ev[t].text)) =
                    CountIn(file, ev[t].user, Strip(ev[t].text)) + 1]_vars

\* C8: every count in the persisted Ledger is at least 1.
C8_CountsPositive ==
    \A u \in DOMAIN file.doc :
        \A i \in 1..Len(file.doc[u]) : file.doc[u][i][2] >= 1

\* A remove has brought a count to zero and saved the map without the key.
C8_Witness ==
    \E v \in 1..Len(views) :
        /\ views[v].action = "remove"
        /\ file.doc = views[v].data
        /\ \E i \in 1..Len(views[v].sorted_thoughts) :
               ~Has(UserMap(file.doc, views[v].user), views[v].sorted_thoughts[i][1])

\* C9: every phrase key of the persisted Ledger is non-empty after trimming.
C9_PhrasesNonBlank ==
    \A u \in DOMAIN file.doc : \A p \in Keys(file.doc[u]) : Strip(p) # <<>>

\* C10: with one operation after another, a remove selection leaves the
\* persisted count of the selected phrase one below what it was, the key
\* absent instead of 0, and the selection of a phrase that is absent leaves
\* the Ledger as it was.
C10_RemoveInvertsRecord ==
    [][\A t \in Clicks :
          /\ (pc[t] = "select234" /\ pc'[t] = "done") =>
                LET u == views[ev[t].obj].user
                    p == ev[t].text
                    n == CountIn(file, u, p)
                IN  /\ CountIn(file', u, p) = IF n >= 1 THEN n - 1 ELSE 0
                    /\ Has(UserMap(file'.doc, u), p) <=> n - 1 >= 1
          /\ (pc[t] = "new" /\ pc'[t] = "done" /\ modals' = modals) =>
                load_data' = load_data]_vars

\* C11: a submitted rename whose old thought is present removes it and sets
\* the new thought's count to its previous count plus the old one's, leaves
\* the author's other thoughts and the other authors' maps as they were; a
\* submitted rename whose old thought is absent leaves the persisted Ledger
\* exactly as it was.
C11_RenameMerges ==
    [][\A mo \in 1..Len(modals) :
          (modals[mo].open /\ ~modals'[mo].open) =>
              LET u == modals[mo].user
                  old == modals[mo].old_thought
                  before == UserMap(load_data, u)
                  after == UserMap(load_data', u)
              IN  IF Has(before, old)
                  THEN /\ \E x \in ModalValues :
                             LET new == Strip(x)
                                 moved == IF new = old
                                          THEN Get(before, old, 0)
                                          ELSE Get(before, new, 0) + Get(before, old, 0)
                             IN  Items(after) =
                                     {i \in Items(before) : i[1] \notin {old, new}}
                                         \cup {<<new, moved>>}
                       /\ \A o \in DOMAIN load_data \ {u} :
                             o \in DOMAIN load_data' /\ load_data'[o] = load_data[o]
                  ELSE load_data' = load_data]_vars

\* C12: with one operation after another, a remove selection that deletes
\* the author's last remaining thought leaves no entry for the author in the
\* persisted Ledger.
C12_LastRemoveDropsAuthor ==
    [][\A t \in Clicks :
          (pc[t] = "select234" /\ pc'[t] = "done") =>
              LET u == views[ev[t].obj].user
              IN  UserMap(load_data', u) = <<>> => u \notin DOMAIN load_data']_vars

RescanRequests == {m \in MessageEvents : m.cmd = "rescan"}

\* C13: a rescan request delivered while the flag is set is not dropped but
\* goes on to the scan-in-progress rejection, and a caller who was sent that
\* rejection was sent no other notice for the request.
C13_RescanRejected ==
    /\ [][\A t \in Tasks, m \in RescanRequests :
            (is_scanning /\ OnMessage(t, m)) => pc'[t] # "ignored"]_vars
    /\ [](\A t \in Tasks : "busy55" \in sent[t] => sent[t] = {"busy55"})

\* C14: a selection or a page navigation by an actor other than the user who
\* invoked the workflow changes neither the persisted Ledger nor the view.
C14_OnlyInvokerActs ==
    [][\A v \in ViewIds, a \in Users :
          (/\ v \in 1..Len(views)
           /\ a # views[v].owner
           /\ \/ next_page(v, a)
              \/ prev_page(v, a)
              \/ \E t \in Clicks, x \in Thoughts : select_callback(t, v, a, x))
          => file' = file /\ views' = views]_vars

\* The place of the map's i-th item in the order by descending count with
\* equal counts in insertion order.
Rank(d, i) ==
    1 + Cardinality({j \in 1..Len(d) :
                        d[j][2] > d[i][2] \/ (d[j][2] = d[i][2] /\ j < i)})

\* The positions 25p to min(25p+25, n)-1 of the order, counted from 1.
PagePositions(p, n) == (25 * p + 1)..Min(25 * p + 25, n)

\* C15: a view's snapshot is the author's map ordered by descending count
\* with equal counts in insertion order; page p offers exactly the entries at
\* positions 25p to min(25p+25, n)-1 of it, previous is disabled exactly on
\* page 0 and next exactly when 25(p+1) >= n, the page index stays in range,
\* a page step moves one page and changes nothing else, and 40 entries make
\* pages of 25 and 15.
C15_Pagination ==
    /\ [][Len(views') = Len(views) + 1 =>
            LET v == views'[Len(views')]
                d == UserMap(load_data, v.user)
            IN  /\ v.page = 0
                /\ Len(v.sorted_thoughts) = Len(d)
                /\ \A i \in 1..Len(d) : v.sorted_thoughts[Rank(d, i)] = d[i]]_vars
    /\ [](\A v \in 1..Len(views) :
            LET n == Len(views[v].sorted_thoughts)
                p == views[v].page
            IN  n >= 1 =>
                  /\ p >= 0 /\ 25 * p < n
                  /\ PageOptions(views[v]) =
                         {views[v].sorted_thoughts[i][1] : i \in PagePositions(p, n)}
                  /\ PrevDisabled(views[v]) <=> p = 0
                  /\ NextDisabled(views[v]) <=> 25 * (p + 1) >= n
                  /\ n = 40 => Cardinality(PageOptions(views[v])) =
                                   IF p = 0 THEN 25 ELSE 15)
    /\ [][\A v \in 1..Len(views) :
            views'[v].page # views[v].page =>
                /\ views'[v].page \in {views[v].page - 1, views[v].page + 1}
                /\ views' = [views EXCEPT ![v].page = views'[v].page]
                /\ file' = file]_vars

\* The second page of a menu of 40 thoughts.
C15_Witness ==
    \E v \in 1..Len(views) :
        /\ Len(views[v].sorted_thoughts) = 40
        /\ views[v].page = 1
        /\ Cardinality(PageOptions(views[v])) = 15
        /\ NextDisabled(views[v]) /\ ~PrevDisabled(views[v])

\* C16: no operation fails on a file that is absent or malformed: its load
\* returns the empty Ledger, and the first save on such a file persists only
\* the one author's entry that the saving operation added.
C16_LoadNeverFails ==
    /\ [](\A t \in Tasks : pc[t] # "failed")
    /\ [][(file.state # "ok" /\ file' # file) =>
            file'.state = "ok" /\ Cardinality(DOMAIN file'.doc) = 1]_vars

\* The first index from c on that holds "." or a newline, or the index after
\* the end of the text.
RECURSIVE StopAt(_, _)
StopAt(s, c) ==
    IF c > Len(s) \/ s[c] \in {".", "N"} THEN c ELSE StopAt(s, c + 1)

\* The captures as the claim words them: after each occurrence of the
\* trigger and the whitespace behind it, the text up to the first ".",
\* newline or end of input, trimmed, and dropped when empty.
RECURSIVE ClaimedFrom(_, _)
ClaimedFrom(s, i) ==
    IF i > Len(s)
    THEN <<>>
    ELSE IF /\ s[i] = "T"
            /\ (i = 1 \/ ~IsWord(s[i - 1]))
            /\ i + 1 <= Len(s)
            /\ IsSpace(s[i + 1])
         THEN LET m == WsEnd(s, i + 1)
                  e == StopAt(s, m + 1)
                  cap == Strip(SubSeq(s, m + 1, e - 1))
              IN  (IF cap = <<>> THEN <<>> ELSE <<cap>>) \o ClaimedFrom(s, e)
         ELSE ClaimedFrom(s, i + 1)

\* C17: a live message records, for its author, exactly the captures the
\* claim words: one per occurrence of the trigger, the following text up to
\* the first ".", newline or end of input, trimmed, none when that is empty;
\* a text from which the code extracts nothing has no such capture.
C17_ExtractorCaptures ==
    [][\A t \in Tasks :
          /\ (pc[t] = "loop" /\ pc'[t] = "cmd") =>
                LET u == ev[t].author
                    claimed == ClaimedFrom(ev[t].text, 1)
                IN  \A p \in Keys(UserMap(load_data', u))
                              \cup {claimed[i] : i \in 1..Len(claimed)} :
                        CountIn(file', u, p) =
                            CountIn(file, u, p)
                                + Cardinality({i \in 1..Len(claimed) : claimed[i] = p})
          /\ (pc[t] = "new" /\ pc'[t] = "cmd") =>
                ClaimedFrom(ev'[t].text, 1) = <<>>]_vars

\* C18: with one operation after another, the save of a remove selection
\* keeps everything the persisted Ledger held at the selection except the
\* selected thought of the view's author: every author stays, and every other
\* thought keeps its count.
C18_RemoveKeepsOtherChanges ==
    [][\A t \in Clicks :
          (pc[t] = "select234" /\ pc'[t] = "done") =>
              LET u == views[ev[t].obj].user
                  selected == ev[t].text
              IN  \A o \in DOMAIN load_data :
                      /\ o \in DOMAIN load_data'
                      /\ \A p \in Keys(load_data[o]) :
                            (o # u \/ p # selected) =>
                                CountIn(file', o, p) = CountIn(file, o, p)]_vars

\* C19: while a scan is past its reset, the persisted map of its target
\* author is the map the scan has built so far: the reset and every counted
\* occurrence are in the file as soon as they are made.
C19_ScanPersistsEachOccurrence ==
    \A t \in Tasks :
        pc[t] \in {"history", "sleep", "finish"} =>
            Items(UserMap(load_data, scan[t].user)) =
                Items(UserMap(data[t], scan[t].user))

\* C20: the save of a scan of one author leaves every other author of the
\* persisted Ledger with the map the file held for them just before.
C20_ScanLeavesOtherAuthors ==
    [][\A t \in Tasks :
          FinishStep(t) =>
              \A o \in DOMAIN load_data \ {scan[t].user} :
                  o \in DOMAIN load_data' /\ load_data'[o] = load_data[o]]_vars

=============================================================================
